---- MODULE Spec2Model ----
(***************************************************************************)
(* Model of the BLE central application of src/main.c: the advertisement   *)
(* filter (device_name_found / device_found), the connection array conns[] *)
(* and the connection callbacks connected / disconnected, together with    *)
(* the part of the BLE host stack the application observes: whether the    *)
(* stack is scanning, and the state of each connection object.             *)
(*                                                                         *)
(* The host stack is not part of the repository.  Its calls are modelled   *)
(* by their documented Zephyr behaviour:                                   *)
(*   bt_le_scan_start  -EALREADY while scanning, otherwise it may succeed  *)
(*                     or fail;                                            *)
(*   bt_le_scan_stop   -EALREADY while not scanning, otherwise it may      *)
(*                     succeed or fail;                                    *)
(*   bt_conn_le_create takes the first unused connection object of a pool  *)
(*                     of MaxHandles objects, or fails;                    *)
(*   bt_conn_unref     returns the object to the pool;                     *)
(*   bt_data_parse     calls the callback on each field in order and stops *)
(*                     at the first field for which it returns false.  The *)
(*                     application reads a result from it: nonzero when no *)
(*                     callback stopped the parse (name not found).        *)
(* The peer address is only printed and passed through, and is left out.   *)
(***************************************************************************)
EXTENDS Integers, Sequences, FiniteSets, TLC

\* ------------------------------------------------------------------ bounds
\* connection objects of the host stack (CONFIG_BT_MAX_CONN)
MaxHandles == 2
\* longest advertised name the filter specification enumerates
MaxNameLen == 4
\* fields that may precede the name field in an enumerated advertisement
MaxLead == 1

\* ------------------------------------------------- constants of the program
MAX_CONNECTIONS == 6
RSSI_THRESHOLD == 0 - 50
NULL == 0

BT_DATA_FLAGS == 1
BT_DATA_NAME_SHORTENED == 8
BT_DATA_NAME_COMPLETE == 9

BT_GAP_ADV_TYPE_ADV_IND == 0
BT_GAP_ADV_TYPE_ADV_DIRECT_IND == 1
BT_GAP_ADV_TYPE_ADV_NONCONN_IND == 3

\* bytes 'C', 'D', 'X' and the terminating NUL of a C string
ChC == 67
ChD == 68
ChX == 88
NUL == 0

\* const char *desired_name = "DXC";  as the bytes in memory
desired_name == <<ChD, ChX, ChC, NUL>>

\* the target name as a byte sequence, without the terminator
TargetName == <<ChD, ChX, ChC>>

\* a pool of connection objects that cannot run out before conns[] is full
PoolHandles == MAX_CONNECTIONS + 1

Slots == 0..(MAX_CONNECTIONS - 1)

VARIABLES
    bt,         \* "off" before main, "ready" after bt_enable, "failed"
    conns,      \* the array conns[]: slot index -> handle or NULL
    connState,  \* host stack: handle -> "Unused" | "Connecting" | "Connected"
    scanState,  \* host stack: "Idle" | "Scanning"
    last,       \* the event whose handler ran last, with its arguments
    trace       \* host calls and printk lines of that handler, in order

vars == <<bt, conns, connState, scanState, last, trace>>

\* ----------------------------------------------------------- trace entries
Call(op, conn, ret, scan) == [op |-> op, msg |-> "", conn |-> conn, ret |-> ret, scan |-> scan]
Log(msg, scan) == [op |-> "printk", msg |-> msg, conn |-> NULL, ret |-> 0, scan |-> scan]

Event(ev, type, rssi, ad, conn, err) ==
    [ev |-> ev, type |-> type, rssi |-> rssi, ad |-> ad, conn |-> conn, err |-> err]

\* ------------------------------------------------------------- strncmp
\* strncmp(s1, s2, n) of the C library; s1 and s2 are 1-indexed here.
\* Compares at most n bytes and stops after a NUL in both.
RECURSIVE strncmp_from(_, _, _, _)
strncmp_from(s1, s2, n, i) ==
    IF i > n THEN 0
    ELSE IF s1[i] # s2[i] THEN s1[i] - s2[i]
    ELSE IF s1[i] = NUL THEN 0
    ELSE strncmp_from(s1, s2, n, i + 1)

strncmp(s1, s2, n) == strncmp_from(s1, s2, n, 1)

\* ------------------------------------------------------ advertisement filter
\* device_name_found: the bt_data_parse callback.  FALSE stops the parse
\* (name found), TRUE continues with the next field.
device_name_found(data, name) ==
    IF data.type = BT_DATA_NAME_COMPLETE
    THEN IF strncmp(name, data.data, Len(data.data)) = 0 THEN FALSE ELSE TRUE
    ELSE TRUE

\* bt_data_parse(ad, device_name_found, desired_name) as device_found reads it:
\* TRUE (nonzero) when the callback never stopped the parse.
RECURSIVE bt_data_parse(_, _)
bt_data_parse(ad, name) ==
    IF ad = <<>> THEN TRUE
    ELSE IF ~device_name_found(Head(ad), name) THEN FALSE
    ELSE bt_data_parse(Tail(ad), name)

\* ------------------------------------------------------------ host stack
\* ans is what the host stack answers when the request can go either way.
bt_le_scan_start(scan, ans) ==
    IF scan = "Scanning" THEN [ret |-> 0 - 120, scan |-> scan]
    ELSE IF ans THEN [ret |-> 0, scan |-> "Scanning"]
    ELSE [ret |-> 0 - 5, scan |-> scan]

bt_le_scan_stop(scan, ans) ==
    IF scan # "Scanning" THEN [ret |-> 0 - 120, scan |-> scan]
    ELSE IF ans THEN [ret |-> 0, scan |-> "Idle"]
    ELSE [ret |-> 0 - 5, scan |-> scan]

\* the first unused connection object, NULL when there is none
FreeHandle(cs) ==
    LET free == {h \in DOMAIN cs : cs[h] = "Unused"}
    IN  IF free = {} THEN NULL ELSE CHOOSE h \in free : \A g \in free : h <= g

bt_conn_le_create(cs, ans) ==
    LET h == FreeHandle(cs)
    IN  IF h = NULL THEN [ret |-> 0 - 12, conn |-> NULL, connState |-> cs]
        ELSE IF ans
             THEN [ret |-> 0, conn |-> h, connState |-> [cs EXCEPT ![h] = "Connecting"]]
             ELSE [ret |-> 0 - 5, conn |-> NULL, connState |-> cs]

bt_conn_unref(cs, conn) == [cs EXCEPT ![conn] = "Unused"]

\* ------------------------------------------------------------ start_scan
\* start_scan that asks once more when the first request fails
start_scan_Retry(scan, ans) ==
    LET r == bt_le_scan_start(scan, ans)
        r2 == IF r.ret # 0 THEN bt_le_scan_start(r.scan, TRUE) ELSE r
    IN  [scanState |-> r2.scan,
         trace |-> <<Call("bt_le_scan_start", NULL, r.ret, scan)>>
                   \o (IF r.ret # 0
                       THEN <<Call("bt_le_scan_start", NULL, r2.ret, r.scan)>>
                       ELSE <<>>)
                   \o <<Log(IF r2.ret # 0 THEN "Scanning failed to start"
                                          ELSE "Scanning successfully started", r2.scan)>>]

start_scan(scan, ans) ==
    LET r == bt_le_scan_start(scan, ans)
    IN  [scanState |-> r.scan,
         trace |-> <<Call("bt_le_scan_start", NULL, r.ret, scan),
                     Log(IF r.ret # 0 THEN "Scanning failed to start"
                                      ELSE "Scanning successfully started", r.scan)>>]

\* ------------------------------------------------------- the array conns[]
\* conns[i] = h, as a store to memory: an index past the array adds a cell
StoreSlot(c, i, h) == (i :> h) @@ c

\* a read of conns[i] that may run past the array
ReadSlot(c, i) == IF i \in DOMAIN c THEN c[i] ELSE NULL

\* for (i = MAX_CONNECTIONS; i >= 0; i--): the scan run from the top, one too far
RECURSIVE FreeSlotTopDown(_, _)
FreeSlotTopDown(c, i) ==
    IF i < 0 THEN 0 - 1
    ELSE IF ReadSlot(c, i) = NULL THEN i
    ELSE FreeSlotTopDown(c, i - 1)

FirstFreeSlot_TopDown(c) == FreeSlotTopDown(c, MAX_CONNECTIONS)

\* for (int i = 0; i < MAX_CONNECTIONS; i++) if (!conns[i]) ...: the index at
\* which the loop of device_found stops, -1 when it runs to the end
RECURSIVE FreeSlotFrom(_, _)
FreeSlotFrom(c, i) ==
    IF ~(i < MAX_CONNECTIONS) THEN 0 - 1
    ELSE IF c[i] = NULL THEN i
    ELSE FreeSlotFrom(c, i + 1)

\* the loop falling back on slot 0 when no slot is free
FirstFreeSlot_OverwriteFirst(c) ==
    IF FreeSlotFrom(c, 0) = 0 - 1 THEN 0 ELSE FreeSlotFrom(c, 0)

FirstFreeSlot(c) == FreeSlotFrom(c, 0)

\* for (...) if (conns[i] == conn) ...: the index at which the loops of
\* connected and disconnected stop, -1 when they run to the end
RECURSIVE SlotOfFrom(_, _, _)
SlotOfFrom(c, conn, i) ==
    IF ~(i < MAX_CONNECTIONS) THEN 0 - 1
    ELSE IF c[i] = conn THEN i
    ELSE SlotOfFrom(c, conn, i + 1)

\* if (conns[i]) in place of if (conns[i] == conn): the first slot in use
SlotOf_AnyHeld(c, conn) ==
    LET used == {i \in Slots : c[i] # NULL}
    IN  IF used = {} THEN 0 - 1 ELSE CHOOSE i \in used : \A j \in used : i <= j

SlotOf(c, conn) == SlotOfFrom(c, conn, 0)

\* bt_conn_unref(conns[i]) without conns[i] = NULL
ReleaseConn_KeepPointer(c, cs, scan, conn) ==
    LET i == SlotOf(c, conn)
    IN  IF i = 0 - 1 THEN [conns |-> c, connState |-> cs, trace |-> <<>>]
        ELSE [conns |-> c,
              connState |-> bt_conn_unref(cs, c[i]),
              trace |-> <<Call("bt_conn_unref", c[i], 0, scan)>>]

\* the release loop of connected and disconnected:
\* bt_conn_unref(conns[i]); conns[i] = NULL; break;
ReleaseConn(c, cs, scan, conn) ==
    LET i == SlotOf(c, conn)
    IN  IF i = 0 - 1 THEN [conns |-> c, connState |-> cs, trace |-> <<>>]
        ELSE [conns |-> StoreSlot(c, i, NULL),
              connState |-> bt_conn_unref(cs, c[i]),
              trace |-> <<Call("bt_conn_unref", c[i], 0, scan)>>]

\* ------------------------------------------------------------ device_found
\* if (type != BT_GAP_ADV_TYPE_ADV_IND && type != BT_GAP_ADV_TYPE_ADV_DIRECT_IND)
NotConnectable(type) ==
    type # BT_GAP_ADV_TYPE_ADV_IND /\ type # BT_GAP_ADV_TYPE_ADV_DIRECT_IND

\* if (rssi > -50): the comparison turned around
TooFar_Inverted(rssi) == rssi > RSSI_THRESHOLD

\* if (rssi <= -50): the threshold itself shut out
TooFar_Inclusive(rssi) == rssi <= RSSI_THRESHOLD

\* if (rssi < -50)
TooFar(rssi) == rssi < RSSI_THRESHOLD

\* if (err && err != -EALREADY): a scan that was not running taken as stopped
StopFailed_ExceptAlready(ret) == ret # 0 /\ ret # 0 - 120

\* the result of bt_le_scan_stop ignored
StopFailed_Ignored(ret) == FALSE

\* if (bt_le_scan_stop())
StopFailed(ret) == ret # 0

\* the result of bt_conn_le_create ignored
CreateFailed_Ignored(ret) == FALSE

\* if (err) after bt_conn_le_create
CreateFailed(ret) == ret # 0

Unchanged(c, cs, scan, t) ==
    [conns |-> c, connState |-> cs, scanState |-> scan, trace |-> t]

device_found(c, cs, scan, type, rssi, ad, ans) ==
    IF NotConnectable(type) THEN Unchanged(c, cs, scan, <<>>)
    ELSE IF bt_data_parse(ad, desired_name) THEN Unchanged(c, cs, scan, <<>>)
    ELSE
    LET t1 == <<Log("Device found", scan)>>
    IN  IF TooFar(rssi) THEN Unchanged(c, cs, scan, t1)
        ELSE
        LET stop == bt_le_scan_stop(scan, ans.stop)
            t2 == Append(t1, Call("bt_le_scan_stop", NULL, stop.ret, scan))
            i == FirstFreeSlot(c)
        IN  IF StopFailed(stop.ret) THEN Unchanged(c, cs, stop.scan, t2)
            ELSE IF i # 0 - 1
            THEN LET cr == bt_conn_le_create(cs, ans.create)
                     t3 == Append(t2, Call("bt_conn_le_create", cr.conn, cr.ret, stop.scan))
                 IN  IF CreateFailed(cr.ret)
                     THEN LET s == start_scan(stop.scan, ans.start)
                          IN  [conns |-> c, connState |-> cr.connState,
                               scanState |-> s.scanState,
                               trace |-> Append(t3, Log("Create conn failed", stop.scan))
                                         \o s.trace]
                     ELSE [conns |-> StoreSlot(c, i, cr.conn), connState |-> cr.connState,
                           scanState |-> stop.scan, trace |-> t3]
            ELSE LET s == start_scan(stop.scan, ans.start)
                 IN  [conns |-> c, connState |-> cs, scanState |-> s.scanState,
                      trace |-> Append(t2, Log("No available connection slots", stop.scan))
                                \o s.trace]

\* --------------------------------------------------------------- connected
\* connected that releases and rescans whatever err is
connected_IgnoreErr(c, cs, scan, conn, err, ans) ==
    LET r == ReleaseConn(c, cs, scan, conn)
        s == start_scan(scan, ans.start)
    IN  [conns |-> r.conns, connState |-> r.connState, scanState |-> s.scanState,
         trace |-> <<Log("Failed to connect", scan)>> \o r.trace \o s.trace]

\* connected that restarts the scan after a successful connection too
connected_RescanOnSuccess(c, cs, scan, conn, err, ans) ==
    LET s == start_scan(scan, ans.start)
    IN  IF err # 0
        THEN LET r == ReleaseConn(c, cs, scan, conn)
             IN  [conns |-> r.conns, connState |-> r.connState, scanState |-> s.scanState,
                  trace |-> <<Log("Failed to connect", scan)>> \o r.trace \o s.trace]
        ELSE [conns |-> c, connState |-> cs, scanState |-> s.scanState,
              trace |-> <<Log("Connected", scan)>> \o s.trace]

connected(c, cs, scan, conn, err, ans) ==
    IF err # 0
    THEN LET r == ReleaseConn(c, cs, scan, conn)
             s == start_scan(scan, ans.start)
         IN  [conns |-> r.conns, connState |-> r.connState, scanState |-> s.scanState,
              trace |-> <<Log("Failed to connect", scan)>> \o r.trace \o s.trace]
    ELSE Unchanged(c, cs, scan, <<Log("Connected", scan)>>)

\* ------------------------------------------------------------ disconnected
\* disconnected without the closing start_scan()
disconnected_NoRescan(c, cs, scan, conn, ans) ==
    LET r == ReleaseConn(c, cs, scan, conn)
    IN  [conns |-> r.conns, connState |-> r.connState, scanState |-> scan,
         trace |-> <<Log("Disconnected", scan)>> \o r.trace]

disconnected(c, cs, scan, conn, ans) ==
    LET r == ReleaseConn(c, cs, scan, conn)
        s == start_scan(scan, ans.start)
    IN  [conns |-> r.conns, connState |-> r.connState, scanState |-> s.scanState,
         trace |-> <<Log("Disconnected", scan)>> \o r.trace \o s.trace]

\* -------------------------------------------------------------------- main
main(scan, ans) ==
    IF ~ans.enable
    THEN [bt |-> "failed", scanState |-> scan,
          trace |-> <<Call("bt_enable", NULL, 0 - 5, scan),
                      Log("Bluetooth init failed", scan)>>]
    ELSE LET s == start_scan(scan, ans.start)
         IN  [bt |-> "ready", scanState |-> s.scanState,
              trace |-> <<Call("bt_enable", NULL, 0, scan),
                          Log("Bluetooth initialized", scan)>> \o s.trace]

\* ------------------------------------------------------------------ inputs
\* what the host stack may answer to bt_enable, scan stop, create and scan start
Answer(enable, stop, create, start) ==
    [enable |-> enable, stop |-> stop, create |-> create, start |-> start]

Bytes == {NUL, ChC, ChD, ChX}
Names == UNION {[1..n -> Bytes] : n \in 0..MaxNameLen}

NameField(n) == [type |-> BT_DATA_NAME_COMPLETE, data |-> n]
ShortNameField(n) == [type |-> BT_DATA_NAME_SHORTENED, data |-> n]
FlagsField == [type |-> BT_DATA_FLAGS, data |-> <<6>>]

AdvTypes ==
    {BT_GAP_ADV_TYPE_ADV_IND, BT_GAP_ADV_TYPE_ADV_DIRECT_IND, BT_GAP_ADV_TYPE_ADV_NONCONN_IND}

\* int8_t rssi around the threshold
Rssis == {RSSI_THRESHOLD - 1, RSSI_THRESHOLD, RSSI_THRESHOLD + 1}

\* the advertisements of the lifecycle specification
SampleAds ==
    { <<>>,
      <<NameField(TargetName)>>,
      <<FlagsField, NameField(TargetName)>>,
      <<NameField(<<ChD, ChX>>)>>,
      <<NameField(<<ChD, ChX, ChC, ChX>>)>>,
      <<ShortNameField(TargetName)>> }

\* the advertisements of the filter specification: up to MaxLead fields that
\* are not the target's name, then no name field or one of any bounded name
LeadFields == {FlagsField, ShortNameField(TargetName), NameField(<<ChX>>)}
Leads == UNION {[1..n -> LeadFields] : n \in 0..MaxLead}
AllAds == {l \o t : l \in Leads, t \in {<<>>} \cup {<<NameField(n)>> : n \in Names}}

\* the discovery events of each specification
Discoveries(ads) == [type : AdvTypes, rssi : Rssis, ad : ads]
SampleDiscoveries == Discoveries(SampleAds)
AllDiscoveries == Discoveries(AllAds)
PoolDiscoveries ==
    {[type |-> BT_GAP_ADV_TYPE_ADV_IND, rssi |-> RSSI_THRESHOLD, ad |-> <<NameField(TargetName)>>]}

\* connected() error codes: 0 is success
Errs == {0, 62}

\* -------------------------------------------------------------- the machine
NoEvent == Event("none", 0, 0, <<>>, NULL, 0)

\* before main, with a host stack of n connection objects
InitWith(n) ==
    /\ bt = "off"
    /\ conns = [i \in Slots |-> NULL]
    /\ connState = [h \in 1..n |-> "Unused"]
    /\ scanState = "Idle"
    /\ last = NoEvent
    /\ trace = <<>>

Init == InitWith(MaxHandles)

Main ==
    /\ bt = "off"
    /\ \E enable \in BOOLEAN, start \in BOOLEAN :
         LET ans == Answer(enable, TRUE, TRUE, start)
             r == main(scanState, ans)
         IN  /\ bt' = r.bt
             /\ scanState' = r.scanState
             /\ trace' = r.trace
             /\ last' = Event("main", 0, 0, <<>>, NULL, 0)
             /\ UNCHANGED <<conns, connState>>

\* the discovery callback, for a discovery event of ds
DeviceFoundEvt(ds) ==
    /\ bt = "ready"
    /\ \E d \in ds, stop \in BOOLEAN, create \in BOOLEAN, start \in BOOLEAN :
         LET ans == Answer(TRUE, stop, create, start)
             type == d.type
             rssi == d.rssi
             ad == d.ad
             r == device_found(conns, connState, scanState, type, rssi, ad, ans)
         IN  /\ conns' = r.conns
             /\ connState' = r.connState
             /\ scanState' = r.scanState
             /\ trace' = r.trace
             /\ last' = Event("device_found", type, rssi, ad, NULL, 0)
             /\ UNCHANGED bt

\* the connect-result callback; on success the host stack has moved a
\* connecting object to connected before it calls back
ConnectedEvt ==
    /\ bt = "ready"
    /\ \E conn \in DOMAIN connState, err \in Errs, start \in BOOLEAN :
         LET ans == Answer(TRUE, TRUE, TRUE, start)
             cs1 == IF err = 0 /\ connState[conn] = "Connecting"
                    THEN [connState EXCEPT ![conn] = "Connected"]
                    ELSE connState
             r == connected(conns, cs1, scanState, conn, err, ans)
         IN  /\ conns' = r.conns
             /\ connState' = r.connState
             /\ scanState' = r.scanState
             /\ trace' = r.trace
             /\ last' = Event("connected", 0, 0, <<>>, conn, err)
             /\ UNCHANGED bt

\* the disconnect callback
DisconnectedEvt ==
    /\ bt = "ready"
    /\ \E conn \in DOMAIN connState, start \in BOOLEAN :
         LET ans == Answer(TRUE, TRUE, TRUE, start)
             r == disconnected(conns, connState, scanState, conn, ans)
         IN  /\ conns' = r.conns
             /\ connState' = r.connState
             /\ scanState' = r.scanState
             /\ trace' = r.trace
             /\ last' = Event("disconnected", 0, 0, <<>>, conn, 19)
             /\ UNCHANGED bt

Next == Main \/ DeviceFoundEvt(SampleDiscoveries) \/ ConnectedEvt \/ DisconnectedEvt

\* every event in any order, stale and duplicate events included
Spec == Init /\ [][Next]_vars

\* the first discovery event after startup, delivered while scanning
FirstDeviceFound ==
    /\ last.ev = "main"
    /\ scanState = "Scanning"
    /\ DeviceFoundEvt(AllDiscoveries)

NextFilter == Main \/ FirstDeviceFound

\* the discovery handler applied once to every bounded advertisement
SpecFilter == Init /\ [][NextFilter]_vars

NextPool == Main \/ DeviceFoundEvt(PoolDiscoveries) \/ ConnectedEvt \/ DisconnectedEvt

\* every event in any order over a host stack that can fill conns[]
SpecPool == InitWith(PoolHandles) /\ [][NextPool]_vars

\* the host stack accepts every scan-start request it can accept
StartAccepted(t) ==
    \A k \in 1..Len(t) : t[k].op = "bt_le_scan_start" => t[k].ret # 0 - 5

NextScanOk ==
    \/ Main /\ StartAccepted(trace')
    \/ DeviceFoundEvt(SampleDiscoveries) /\ StartAccepted(trace')
    \/ ConnectedEvt /\ StartAccepted(trace')
    \/ DisconnectedEvt /\ StartAccepted(trace')

\* every event in any order, with no scan-start request refused
SpecScanOk == Init /\ [][NextScanOk]_vars

\* some slot holds conn
Held(conn) == \E i \in Slots : conns[i] = conn

\* the callbacks as the host stack delivers them: discovery only while it is
\* scanning, connect results and disconnects only for a handle a slot holds
InOrderDiscoveries ==
    Discoveries(SampleAds \cup {<<NameField(<<>>)>>, <<NameField(desired_name)>>})

DeviceFoundInOrder == scanState = "Scanning" /\ DeviceFoundEvt(InOrderDiscoveries)
ConnectedInOrder == ConnectedEvt /\ Held(last'.conn)
DisconnectedInOrder == DisconnectedEvt /\ Held(last'.conn)

NextInOrder == Main \/ DeviceFoundInOrder \/ ConnectedInOrder \/ DisconnectedInOrder

SpecInOrder == Init /\ [][NextInOrder]_vars

\* ============================================================== properties
\* the lifecycle state of slot i of array c under connection states cs
SlotStateOf(c, cs, i) == IF c[i] = NULL THEN "Empty" ELSE cs[c[i]]
SlotState(i) == SlotStateOf(conns, connState, i)

\* the handler whose trace is t issued request op / got answer ret to it
Requested(t, op) == \E k \in 1..Len(t) : t[k].op = op
Answered(t, op, ret) == \E k \in 1..Len(t) : t[k].op = op /\ t[k].ret = ret
Logged(t, msg) == \E k \in 1..Len(t) : t[k].op = "printk" /\ t[k].msg = msg

\* the advertisement carries the target name as a complete local name,
\* equal in length and in every byte
HasTargetName(ad) ==
    \E k \in 1..Len(ad) : ad[k].type = BT_DATA_NAME_COMPLETE /\ ad[k].data = TargetName

Connectable(type) ==
    type \in {BT_GAP_ADV_TYPE_ADV_IND, BT_GAP_ADV_TYPE_ADV_DIRECT_IND}

\* e is a connect-failure or a disconnect event
ReleaseEvent(e) == (e.ev = "connected" /\ e.err # 0) \/ e.ev = "disconnected"

\* C1: in every reachable state the non-Empty slots are slots of the array
\* conns[0 .. MAX_CONNECTIONS-1], so their number is at most MAX_CONNECTIONS.
C1_NonEmptyWithinCapacity ==
    LET used == {i \in DOMAIN conns : conns[i] # NULL}
    IN  used \subseteq Slots /\ Cardinality(used) <= MAX_CONNECTIONS

\* every slot is taken and one more accepted discovery has just been handled
C1_FullPoolDiscovery ==
    /\ \A i \in Slots : conns[i] # NULL
    /\ last.ev = "device_found"
    /\ Logged(trace, "No available connection slots")

\* C2: no connection handle is held by two distinct slots.
C2_HandlesDistinct ==
    \A i \in DOMAIN conns : \A j \in DOMAIN conns :
        (i # j /\ conns[i] # NULL /\ conns[j] # NULL) => conns[i] # conns[j]

\* a connection was just created into slot 0 while the slots above hold others
C2_RefilledBesideOthers ==
    /\ last.ev = "device_found"
    /\ Answered(trace, "bt_conn_le_create", 0)
    /\ \A i \in Slots : conns[i] # NULL

\* C3: in no reachable state is the host stack scanning while some slot is
\* Connecting.
C3_NoScanWhileConnecting ==
    ~(scanState = "Scanning" /\ \E i \in Slots : SlotState(i) = "Connecting")

\* C4 as claimed: a connect-failure or disconnect event for the handle held by
\* slot i leaves slot i Empty and the scan running, whatever the host stack
\* answers to the scan-start request.
C4_ReleaseAlwaysScanning ==
    [][\A i \in Slots :
         (ReleaseEvent(last') /\ conns[i] # NULL /\ conns[i] = last'.conn)
         => (conns'[i] = NULL /\ scanState' = "Scanning")]_vars

\* C4 amended: a connect-failure or disconnect event for the handle held by
\* slot i leaves slot i Empty and issues a scan-start request; afterwards the
\* scan is running exactly when it was already running or the host stack
\* accepted the request.
C4_ReleaseThenRescanRequested ==
    [][\A i \in Slots :
         (ReleaseEvent(last') /\ conns[i] # NULL /\ conns[i] = last'.conn)
         => /\ conns'[i] = NULL
            /\ Requested(trace', "bt_le_scan_start")
            /\ (scanState' = "Scanning")
               <=> (scanState = "Scanning" \/ Answered(trace', "bt_le_scan_start", 0))]_vars

\* a held handle was released and the host stack refused to restart the scan
C4_ReleasedScanRefused ==
    /\ ReleaseEvent(last)
    /\ Answered(trace, "bt_conn_unref", 0)
    /\ Answered(trace, "bt_le_scan_start", 0 - 5)
    /\ scanState = "Idle"
    /\ \A i \in Slots : conns[i] # last.conn

\* a discovery event e that the filter is meant to accept: connectable, the
\* target name, rssi at or above the threshold
Accepted(e) ==
    /\ e.ev = "device_found"
    /\ Connectable(e.type)
    /\ HasTargetName(e.ad)
    /\ e.rssi >= RSSI_THRESHOLD

\* the lowest-indexed Empty slot of c
LowestEmpty(c) == CHOOSE i \in Slots : c[i] = NULL /\ \A j \in Slots : c[j] = NULL => i <= j

\* this step stops the scan and takes exactly the lowest Empty slot from Empty
\* to Connecting
ReservesLowestEmpty ==
    LET i == LowestEmpty(conns)
    IN  /\ scanState' = "Idle"
        /\ SlotStateOf(conns', connState', i) = "Connecting"
        /\ \A j \in Slots \ {i} :
             /\ conns'[j] = conns[j]
             /\ SlotStateOf(conns', connState', j) = SlotStateOf(conns, connState, j)

\* C5 as claimed, for events delivered while scanning: an accepted discovery
\* event with some slot Empty stops the scan and takes the lowest-indexed Empty
\* slot, and only it, from Empty to Connecting.
C5_AcceptedAlwaysReserves ==
    [][(Accepted(last') /\ scanState = "Scanning" /\ \E i \in Slots : conns[i] = NULL)
       => ReservesLowestEmpty]_vars

\* C5 amended: for an accepted discovery event with some slot Empty the handler
\* requests stopScan; when the host stack accepts it (it does so only while
\* scanning) the handler requests createConnection; and when the host stack
\* accepts that too, the scan is stopped and the lowest-indexed Empty slot, and
\* only it, has gone from Empty to Connecting.
C5_AcceptedReservesWhenHostAccepts ==
    [][(Accepted(last') /\ \E i \in Slots : conns[i] = NULL)
       => /\ Requested(trace', "bt_le_scan_stop")
          /\ Answered(trace', "bt_le_scan_stop", 0)
             => (scanState = "Scanning" /\ Requested(trace', "bt_conn_le_create"))
          /\ (Answered(trace', "bt_le_scan_stop", 0) /\ Answered(trace', "bt_conn_le_create", 0))
             => ReservesLowestEmpty]_vars

\* an advertisement at exactly the threshold was accepted into slot 0 while
\* slot 1 holds another connection
C5_ReservedAtThreshold ==
    /\ Accepted(last)
    /\ last.rssi = RSSI_THRESHOLD
    /\ Answered(trace, "bt_conn_le_create", 0)
    /\ scanState = "Idle"
    /\ SlotState(0) = "Connecting"
    /\ conns[1] # NULL

\* the handler whose trace is t asked the host stack for nothing that changes
\* the scan or a connection
NoScanOrConnRequest(t) ==
    /\ ~Requested(t, "bt_le_scan_stop")
    /\ ~Requested(t, "bt_le_scan_start")
    /\ ~Requested(t, "bt_conn_le_create")
    /\ ~Requested(t, "bt_conn_unref")

\* C6, for events delivered while scanning: a discovery event that is
\* non-connectable, or carries no complete local name equal to the target name,
\* changes no slot and not the scan state, and requests neither stopScan nor
\* createConnection.
C6_RejectedChangesNothing ==
    [][(/\ last'.ev = "device_found"
        /\ scanState = "Scanning"
        /\ (~Connectable(last'.type) \/ ~HasTargetName(last'.ad)))
       => /\ UNCHANGED <<conns, connState, scanState>>
          /\ NoScanOrConnRequest(trace')]_vars

\* C7: a discovery event with the target name and rssi below the threshold
\* changes no slot and not the scan state, and requests nothing of the host
\* stack.
C7_WeakSignalChangesNothing ==
    [][(last'.ev = "device_found" /\ HasTargetName(last'.ad) /\ last'.rssi < RSSI_THRESHOLD)
       => /\ UNCHANGED <<conns, connState, scanState>>
          /\ NoScanOrConnRequest(trace')]_vars

\* a connectable advertisement with the target name, one below the threshold,
\* was seen and logged while scanning, and the scan goes on
C7_WeakSignalSeenWhileScanning ==
    /\ last.ev = "device_found"
    /\ Connectable(last.type)
    /\ HasTargetName(last.ad)
    /\ last.rssi = RSSI_THRESHOLD - 1
    /\ trace = <<Log("Device found", "Scanning")>>
    /\ scanState = "Scanning"

\* C8: a connectable advertisement passes the name check (and is logged as
\* found) if and only if it carries a complete local name equal to the target
\* name in length and in every byte.
C8_NameCheckIsExactEquality ==
    (last.ev = "device_found" /\ Connectable(last.type))
    => (Logged(trace, "Device found") <=> HasTargetName(last.ad))

\* the advertisement carries a complete local name that is longer than the
\* target name and starts with it
HasLongerNameWithTargetPrefix(ad) ==
    \E k \in 1..Len(ad) :
        /\ ad[k].type = BT_DATA_NAME_COMPLETE
        /\ Len(ad[k].data) > Len(TargetName)
        /\ SubSeq(ad[k].data, 1, Len(TargetName)) = TargetName

\* C9: an advertisement whose complete local name is longer than the target
\* name and has it as a prefix is rejected: the scan is not stopped and no
\* connection is created.
C9_LongerNameRejected ==
    (last.ev = "device_found" /\ HasLongerNameWithTargetPrefix(last.ad)
                              /\ ~HasTargetName(last.ad))
    => (~Logged(trace, "Device found") /\ NoScanOrConnRequest(trace))

\* C10: every createConnection request is issued while the host stack is not
\* scanning and after a stopScan request of the same handler that succeeded.
C10_CreateOnlyAfterStop ==
    \A k \in 1..Len(trace) :
        trace[k].op = "bt_conn_le_create"
        => /\ trace[k].scan = "Idle"
           /\ \E j \in 1..(k - 1) : trace[j].op = "bt_le_scan_stop" /\ trace[j].ret = 0

\* the discovery handler has just issued a createConnection request
C10_CreateIssued ==
    /\ last.ev = "device_found"
    /\ Requested(trace, "bt_conn_le_create")

\* C11: after startup, with no scan-start request refused, the host stack is
\* scanning in every state in which no slot is Connecting.
C11_ScanningUnlessConnecting ==
    (bt = "ready" /\ \A i \in Slots : SlotState(i) # "Connecting")
    => scanState = "Scanning"

\* the number of requests op in trace t
RECURSIVE Requests(_, _)
Requests(t, op) ==
    IF t = <<>> THEN 0
    ELSE (IF Head(t).op = op THEN 1 ELSE 0) + Requests(Tail(t), op)

\* after startup nothing is held and the host stack is not scanning
Quiescent == bt = "ready" /\ scanState = "Idle" /\ \A i \in Slots : conns[i] = NULL

\* C12: a handler whose scan-start request is refused leaves the host stack
\* Idle and has asked only once; scan-start requests come only from main, a
\* connect failure, a disconnect, a full pool or a failed connection creation;
\* and with every slot Empty and the scan Idle no callback is delivered, so
\* no step is taken from there.
C12_RefusedStartNotRetried ==
    [][/\ ~Quiescent
       /\ Requests(trace', "bt_le_scan_start") <= 1
       /\ Answered(trace', "bt_le_scan_start", 0 - 5) => scanState' = "Idle"
       /\ Requested(trace', "bt_le_scan_start")
          => \/ last'.ev = "main"
             \/ ReleaseEvent(last')
             \/ Logged(trace', "No available connection slots")
             \/ Logged(trace', "Create conn failed")]_vars

\* a connect failure or disconnect released the only connection and the
\* scan-start request was refused
C12_RefusedAfterRelease ==
    /\ ReleaseEvent(last)
    /\ Requested(trace, "bt_conn_unref")
    /\ Answered(trace, "bt_le_scan_start", 0 - 5)
    /\ Quiescent

\* C13: when the createConnection request of the discovery handler fails, no
\* slot has changed (the slot picked for it is still Empty), a scan start is
\* requested, and the host stack is scanning when it accepts that request.
C13_CreateFailureRescans ==
    [][(/\ last'.ev = "device_found"
        /\ Requested(trace', "bt_conn_le_create")
        /\ ~Answered(trace', "bt_conn_le_create", 0))
       => /\ conns' = conns
          /\ connState' = connState
          /\ conns'[LowestEmpty(conns)] = NULL
          /\ Requested(trace', "bt_le_scan_start")
          /\ Answered(trace', "bt_le_scan_start", 0) => scanState' = "Scanning"]_vars

\* the host stack refused a connection for slot 0 while slot 1 holds one, and
\* the scan is running again
C13_CreateRefusedBesideOther ==
    /\ last.ev = "device_found"
    /\ Answered(trace, "bt_conn_le_create", 0 - 5)
    /\ Answered(trace, "bt_le_scan_start", 0)
    /\ scanState = "Scanning"
    /\ conns[0] = NULL
    /\ conns[1] # NULL

\* C14: an accepted discovery event that finds no slot Empty changes no slot
\* and requests no connection; delivered while scanning with the stop accepted
\* it requests a scan start, and the host stack is scanning when it accepts
\* that request.
C14_FullPoolRescans ==
    [][(Accepted(last') /\ \A i \in Slots : conns[i] # NULL)
       => /\ conns' = conns
          /\ connState' = connState
          /\ ~Requested(trace', "bt_conn_le_create")
          /\ Answered(trace', "bt_le_scan_stop", 0) => Requested(trace', "bt_le_scan_start")
          /\ Answered(trace', "bt_le_scan_start", 0) => scanState' = "Scanning"]_vars

\* an accepted discovery met a full pool and the scan was restarted
C14_FullPoolScanRestarted ==
    /\ Accepted(last)
    /\ \A i \in Slots : conns[i] # NULL
    /\ Logged(trace, "No available connection slots")
    /\ Answered(trace, "bt_le_scan_start", 0)
    /\ scanState = "Scanning"

\* C15: a connect-failure or disconnect event for a handle no slot holds
\* changes no slot and no connection object and releases no handle.
C15_UnheldReleaseIsNoOp ==
    [][(ReleaseEvent(last') /\ ~Held(last'.conn))
       => /\ conns' = conns
          /\ connState' = connState
          /\ ~Requested(trace', "bt_conn_unref")]_vars

\* a release event for a handle no slot holds was handled while a slot holds
\* another connection
C15_DuplicateReleaseHandled ==
    /\ ReleaseEvent(last)
    /\ ~Requested(trace, "bt_conn_unref")
    /\ \E i \in Slots : conns[i] # NULL /\ conns[i] # last.conn

\* C16: an accepted discovery event delivered while the host stack is not
\* scanning changes no slot and not the scan state, and requests neither a
\* connection nor a scan start.
C16_StaleDiscoveryIsNoOp ==
    [][(Accepted(last') /\ scanState = "Idle")
       => /\ UNCHANGED <<conns, connState, scanState>>
          /\ ~Requested(trace', "bt_conn_le_create")
          /\ ~Requested(trace', "bt_le_scan_start")]_vars

\* an accepted discovery arrived while slot 0 was Connecting and the scan
\* stopped, and the stop request came back as already stopped
C16_StaleDiscoveryWhileConnecting ==
    /\ Accepted(last)
    /\ Answered(trace, "bt_le_scan_stop", 0 - 120)
    /\ scanState = "Idle"
    /\ SlotState(0) = "Connecting"

\* C17: a connect-success event for a handle whose slot is not Connecting is
\* not accepted as a connection (it is not logged as Connected).
C17_UnexpectedSuccessRejected ==
    [][(/\ last'.ev = "connected"
        /\ last'.err = 0
        /\ ~(Held(last'.conn) /\ connState[last'.conn] = "Connecting"))
       => ~Logged(trace', "Connected")]_vars

\* C18: a connect-success event for the handle of a Connecting slot i leaves
\* slot i Connected with the same handle, every other slot and the scan state
\* as they were, and requests neither a scan start nor a release.
C18_SuccessMarksConnected ==
    [][\A i \in Slots :
         (/\ last'.ev = "connected"
          /\ last'.err = 0
          /\ conns[i] # NULL
          /\ conns[i] = last'.conn
          /\ connState[conns[i]] = "Connecting")
         => /\ conns' = conns
            /\ SlotStateOf(conns', connState', i) = "Connected"
            /\ \A j \in Slots \ {i} :
                 SlotStateOf(conns', connState', j) = SlotStateOf(conns, connState, j)
            /\ scanState' = scanState
            /\ ~Requested(trace', "bt_le_scan_start")
            /\ ~Requested(trace', "bt_conn_unref")]_vars

\* slot 1 has just become Connected beside another connection in slot 0
C18_SecondSlotConnected ==
    /\ last.ev = "connected"
    /\ last.err = 0
    /\ conns[1] = last.conn
    /\ SlotState(1) = "Connected"
    /\ conns[0] # NULL
    /\ trace = <<Log("Connected", scanState)>>

C20_ReleaseOnlyWithSlotReset ==
    [][/\ Requests(trace', "bt_conn_unref") <= 1
       /\ \A k \in 1..Len(trace') :
            trace'[k].op = "bt_conn_unref"
            => /\ trace'[k].conn # NULL
               /\ \E i \in Slots : conns[i] = trace'[k].conn /\ conns'[i] = NULL]_vars

\* a disconnect released its handle while another slot still holds one
C20_ReleasedBesideOther ==
    /\ last.ev = "disconnected"
    /\ Answered(trace, "bt_conn_unref", 0)
    /\ ~Held(last.conn)
    /\ \E i \in Slots : conns[i] # NULL

====
